---------------------------- MODULE Spec2Model ----------------------------
(***************************************************************************)
(* A model of GNSS_TimeSeries_Viewers' spherical strain-rate inversion     *)
(* (2D_Strain/Strain_Code/hammond_strain.py): strain_sphere, the           *)
(* least-squares solver, and compute, which applies it to every Delaunay   *)
(* triangle of a station velocity field.                                   *)
(*                                                                         *)
(* Numbers.  The program computes in floating point.  The model computes   *)
(* exactly: a real is q * r0^e with q a rational in lowest terms and e an  *)
(* integer, so that the Earth radius r0 = 6.378e6 is carried as a factor   *)
(* and TLC's integers hold the rest.  np.nan is the value NaN.  np.pi is   *)
(* the rational PiNum/PiDen, and np.sin / np.cos are rounded to the        *)
(* nearest multiple of 1/2 (every other step of the program is exact).     *)
(***************************************************************************)
EXTENDS Integers, Sequences, FiniteSets, TLC

----------------------------------------------------------------------------
(* Exact arithmetic: [n, d, e] is (n / d) * r0^e, d > 0, gcd(n, d) = 1.     *)

R0Value == 6378000
PiNum == 22
PiDen == 7

Abs(x) == IF x < 0 THEN -x ELSE x

RECURSIVE Gcd(_, _)
Gcd(a, b) == IF b = 0 THEN a ELSE Gcd(b, a % b)

RECURSIVE IntPow(_, _)
IntPow(b, k) == IF k = 0 THEN 1 ELSE b * IntPow(b, k - 1)

Zero == [n |-> 0, d |-> 1, e |-> 0]

\* n / d * r0^e in lowest terms (d may be negative, never 0)
Norm(n, d, e) ==
    IF n = 0 THEN Zero
    ELSE LET g == Gcd(Abs(n), Abs(d))
             s == IF d < 0 THEN -1 ELSE 1
         IN  [n |-> s * (n \div g), d |-> s * (d \div g), e |-> e]

Q(k) == Norm(k, 1, 0)
Frac(a, b) == Norm(a, b, 0)
One == Q(1)

QNeg(x) == [x EXCEPT !.n = -x.n]

QMul(x, y) ==
    IF x.n = 0 \/ y.n = 0 THEN Zero
    ELSE LET g1 == Gcd(Abs(x.n), y.d)
             g2 == Gcd(Abs(y.n), x.d)
         IN  [n |-> (x.n \div g1) * (y.n \div g2),
              d |-> (x.d \div g2) * (y.d \div g1),
              e |-> x.e + y.e]

QInv(x) == IF x.n < 0 THEN [n |-> -x.d, d |-> -x.n, e |-> -x.e]
                      ELSE [n |-> x.d, d |-> x.n, e |-> -x.e]

QDiv(x, y) == QMul(x, QInv(y))

\* np.nan
NaN == [n |-> 0, d |-> 0, e |-> 0]

\* x + y for nonzero terms.  Every sum the program forms has terms of one
\* power of r0; a sum of different powers has no value here.
QAddSame(x, y) ==
    IF x.e # y.e THEN NaN
    ELSE Norm(x.n * (y.d \div Gcd(x.d, y.d)) + y.n * (x.d \div Gcd(x.d, y.d)),
              (x.d \div Gcd(x.d, y.d)) * y.d, x.e)

QAdd(x, y) ==
    IF x.n = 0 THEN y
    ELSE IF y.n = 0 THEN x
    ELSE QAddSame(x, y)

QSub(x, y) == QAdd(x, QNeg(y))
QAbs(x) == [x EXCEPT !.n = Abs(x.n)]
QSquare(x) == QMul(x, x)

\* x < y, for x and y carrying the same power of r0
QLess(x, y) == QSub(x, y).n < 0

RECURSIVE QSumTo(_, _)
\* f[1] + ... + f[k]
QSumTo(f, k) == IF k = 0 THEN Zero ELSE QAdd(QSumTo(f, k - 1), f[k])

QSum(f) == QSumTo(f, Len(f))
\* np.mean
Mean(f) == QDiv(QSum(f), Q(Len(f)))

----------------------------------------------------------------------------
(* Matrices are sequences of rows.                                         *)

\* A vector with its entries computed once (TLC would otherwise recompute
\* an entry each time it is read)
Vec(f) == f \o << >>

NRows(A) == Len(A)
NCols(A) == IF Len(A) = 0 THEN 0 ELSE Len(A[1])

Transpose(A) == Vec([j \in 1..NCols(A) |-> Vec([i \in 1..NRows(A) |-> A[i][j]])])

\* np.dot of two matrices
MatMul(A, B) ==
    Vec([i \in 1..NRows(A) |->
        Vec([j \in 1..NCols(B) |->
            QSum([k \in 1..NRows(B) |-> QMul(A[i][k], B[k][j])])])])

\* np.dot of a matrix and a vector
MatVec(A, v) ==
    Vec([i \in 1..NRows(A) |-> QSum([k \in 1..Len(v) |-> QMul(A[i][k], v[k])])])

\* np.dot of two vectors
Dot(u, v) == QSum([k \in 1..Len(u) |-> QMul(u[k], v[k])])

\* np.diag of a vector
Diag(v) ==
    Vec([i \in 1..Len(v) |-> Vec([j \in 1..Len(v) |-> IF i = j THEN v[i] ELSE Zero])])

\* np.diag of a matrix
DiagOf(A) == Vec([i \in 1..NRows(A) |-> A[i][i]])

Identity(k) == Diag([i \in 1..k |-> One])

\* Gauss-Jordan elimination of the augmented matrix [A | I], column c on:
\* [ok |-> FALSE] when a column has no pivot.
RECURSIVE Eliminate(_, _, _)
Eliminate(Aug, c, k) ==
    IF c > k THEN [ok |-> TRUE, A |-> Aug]
    ELSE LET cand == {r \in c..k : Aug[r][c].n # 0}
         IN  IF cand = {} THEN [ok |-> FALSE, A |-> <<>>]
             ELSE LET p == CHOOSE r \in cand : \A r2 \in cand : r <= r2
                      swapped == [Aug EXCEPT ![c] = Aug[p], ![p] = Aug[c]]
                      pinv == QInv(swapped[c][c])
                      prow == Vec([j \in 1..(2 * k) |-> QMul(swapped[c][j], pinv)])
                      next == Vec([r \in 1..k |->
                                 IF r = c THEN prow
                                 ELSE IF swapped[r][c].n = 0 THEN swapped[r]
                                 ELSE Vec([j \in 1..(2 * k) |->
                                         QSub(swapped[r][j],
                                              QMul(swapped[r][c], prow[j]))])])
                  IN  Eliminate(next, c + 1, k)

\* np.linalg.inv in exact arithmetic: [ok |-> TRUE, A |-> the inverse], or
\* [ok |-> FALSE] for a singular matrix
Inverse(A) ==
    LET k == NRows(A)
        Id == Identity(k)
        Aug == Vec([i \in 1..k |-> Vec([j \in 1..(2 * k) |->
                    IF j <= k THEN A[i][j] ELSE Id[i][j - k]])])
        red == Eliminate(Aug, 1, k)
    IN  IF red.ok
        THEN [ok |-> TRUE,
              A |-> Vec([i \in 1..k |-> Vec([j \in 1..k |-> red.A[i][j + k]])])]
        ELSE [ok |-> FALSE, A |-> <<>>]

----------------------------------------------------------------------------
(* Values that are not plain numbers.                                      *)

\* what an inversion of a singular matrix leaves when rounding noise hides
\* the zero pivot: some floating-point value, of no meaning
Junk == [n |-> 1, d |-> 0, e |-> 0]

IsNumber(x) == x.d # 0

\* x * y where either may be NaN or Junk
VMul(x, y) ==
    IF x = NaN \/ y = NaN THEN NaN
    ELSE IF x = Junk \/ y = Junk THEN Junk
    ELSE QMul(x, y)

VNeg(x) == IF IsNumber(x) THEN QNeg(x) ELSE x

\* np.sqrt: the root of n/d is kept as [n, d, e, root |-> TRUE], which is
\* sqrt(n / d) * r0^e
VSqrt(x) ==
    IF ~IsNumber(x) THEN x
    ELSE IF x.n < 0 THEN NaN
    ELSE IF x.n = 0 THEN Zero
    ELSE [n |-> x.n, d |-> x.d, e |-> x.e \div 2, root |-> TRUE]

\* c * s for a number c of the form r0^k and a root s
VMulRoot(c, s) ==
    IF ~IsNumber(s) THEN s
    ELSE IF s.n = 0 THEN Zero
    ELSE [s EXCEPT !.e = s.e + c.e]

----------------------------------------------------------------------------
(* strain_sphere(phi, theta, u_phi, u_theta, s_phi, s_theta, weight,       *)
(* paramsel).  Stations are numbered 1..n here and 0..n-1 in the program,  *)
(* so the program's rows 2i and 2i+1 of G are rows 2i-1 and 2i.            *)

Pi == Frac(PiNum, PiDen)
HalfPi == QDiv(Pi, Q(2))

\* i*np.pi/180
ToRadians(x) == QDiv(QMul(x, Pi), Q(180))

\* sin on [0, pi/2], rounded to the nearest multiple of 1/2
SinFirst(y) ==
    IF QLess(y, Frac(1, 4)) THEN Zero
    ELSE IF QLess(y, Frac(17, 20)) THEN Frac(1, 2)
    ELSE One

RECURSIVE Sin(_)
\* np.sin
Sin(x) ==
    IF x.n < 0 THEN QNeg(Sin(QNeg(x)))
    ELSE IF QLess(Pi, x) THEN QNeg(Sin(QSub(x, Pi)))
    ELSE IF QLess(HalfPi, x) THEN SinFirst(QSub(Pi, x))
    ELSE SinFirst(x)

\* np.cos
Cos(x) == Sin(QSub(HalfPi, x))

\* mean equatorial Earth radius, the unit the numbers carry
r0 == [n |-> 1, d |-> 1, e |-> 1]

\* the threshold 1e-5 of the collinearity tests
Tol == Frac(1, 100000)

\* np.hstack of two vectors
HStack(u, v) == u \o v

\* np.linalg.lstsq(A, b)[0]: the least-squares solution, and the one of
\* least norm when A has rank 1 with all rows equal
Lstsq(A, b) ==
    LET At == Transpose(A)
        inv == Inverse(MatMul(At, A))
    IN  IF inv.ok THEN MatVec(MatMul(inv.A, At), b)
        ELSE LET v == A[1]
                 c == QDiv(Mean(b), Dot(v, v))
             IN  Vec([j \in 1..Len(v) |-> QMul(v[j], c)])

\* max(abs(v)) < Tol
AllBelowTol(v) == \A i \in 1..Len(v) : QLess(QAbs(v[i]), Tol)

\* NearMean without the test
NearMeanNever(v) == FALSE

\* abs(v - np.mean(v)) < 1e-5
NearMean(v) == AllBelowTol([i \in 1..Len(v) |-> QSub(v[i], Mean(v))])

\* the collinearity flag colin, from phi and theta in radians
Colin(phi, theta) ==
    LET dc == Vec([i \in 1..Len(theta) |-> QSub(Q(90), theta[i])])
        Gc == Vec([i \in 1..Len(phi) |-> <<One, phi[i]>>])
        mc == Lstsq(Gc, dc)
        resc == Vec([i \in 1..Len(dc) |-> QSub(Dot(Gc[i], mc), dc[i])])
        colin1 == IF AllBelowTol(resc) THEN 1 ELSE 0
    IN  IF NearMean(phi) \/ NearMean(theta) THEN 2 ELSE colin1

\* what the collinearity check prints
ColinWarning(colin) ==
    IF colin = 1 \/ colin = 2
    THEN << [msg |-> "Warning:  Points are collinear. Type=", type |-> colin] >>
    ELSE << >>

\* NumParams with rotation-only mode no longer recognised
NumParamsStrainOnly(paramsel) == IF paramsel # 2 THEN 6 ELSE 3

\* the number of columns of G
NumParams(paramsel) == IF paramsel # 2 /\ paramsel # 1 THEN 6 ELSE 3

\* the entries the program writes into rows 2i and 2i+1 of G for one
\* station; sin_0 and cos_0 are np.sin(theta_0) and np.cos(theta_0)
GRowPhi(paramsel, del_phi, del_theta, sin_0, cos_0) ==
    IF paramsel = 2
    THEN << QMul(r0, QMul(sin_0, del_phi)), QMul(r0, del_theta), Zero >>
    ELSE << QNeg(r0),
            QNeg(QMul(r0, QMul(cos_0, del_phi))),
            QMul(r0, del_theta) >>
         \o IF paramsel = 1 THEN << >>
            ELSE << QMul(r0, QMul(sin_0, del_phi)), QMul(r0, del_theta), Zero >>

GRowTheta(paramsel, del_phi, del_theta, sin_0, cos_0) ==
    IF paramsel = 2
    THEN << Zero, QMul(r0, QMul(sin_0, del_phi)), QMul(r0, del_theta) >>
    ELSE << QNeg(QMul(r0, QMul(cos_0, del_phi))),
            r0,
            QNeg(QMul(r0, QMul(sin_0, del_phi))) >>
         \o IF paramsel = 1 THEN << >>
            ELSE << Zero, QMul(r0, QMul(sin_0, del_phi)), QMul(r0, del_theta) >>

\* a row of np.zeros([2*n, width]) with the entries written into it
ZeroRowWith(written, width) ==
    Vec([j \in 1..width |-> IF j <= Len(written) THEN written[j] ELSE Zero])

\* row r of G, for the station means phi_0 and theta_0
GRow(r, phi, theta, phi_0, theta_0, sin_0, cos_0, paramsel) ==
    ZeroRowWith(
        IF r % 2 = 1
        THEN GRowPhi(paramsel, QSub(phi[(r + 1) \div 2], phi_0),
                     QSub(theta[(r + 1) \div 2], theta_0), sin_0, cos_0)
        ELSE GRowTheta(paramsel, QSub(phi[(r + 1) \div 2], phi_0),
                       QSub(theta[(r + 1) \div 2], theta_0), sin_0, cos_0),
        NumParams(paramsel))

\* the design matrix G, from phi and theta in radians
BuildG(phi, theta, n, paramsel, phi_0, theta_0) ==
    Vec([r \in 1..(2 * n) |->
        GRow(r, phi, theta, phi_0, theta_0, Sin(theta_0), Cos(theta_0), paramsel)])

\* covd
Covd(s_phi, s_theta) ==
    Diag(HStack([i \in 1..Len(s_phi) |-> QSquare(s_phi[i])],
                [i \in 1..Len(s_theta) |-> QSquare(s_theta[i])]))

\* NormalMatrix without the weights
NormalMatrixUnweighted(G, covd, weight) == MatMul(Transpose(G), G)

\* the matrix the program inverts
NormalMatrix(G, covd, weight) ==
    IF weight = 1
    THEN LET W == Diag([i \in 1..NRows(covd) |-> QInv(DiagOf(covd)[i])])
         IN  MatMul(MatMul(Transpose(G), W), G)
    ELSE MatMul(Transpose(G), G)

\* M, given the inverse of the normal matrix
SolverMatrix(G, covd, weight, inv) ==
    IF weight = 1
    THEN LET W == Diag([i \in 1..NRows(covd) |-> QInv(DiagOf(covd)[i])])
         IN  MatMul(inv, MatMul(Transpose(G), W))
    ELSE MatMul(inv, Transpose(G))

\* dpred[::2] and dpred[1::2]
EvenEntries(v) == Vec([i \in 1..(Len(v) \div 2) |-> v[2 * i - 1]])
OddEntries(v) == Vec([i \in 1..(Len(v) \div 2) |-> v[2 * i]])

\* Unpack with zeros in place of np.nan
UnpackZeros(m, paramsel) ==
    IF paramsel = 2
    THEN [omega_theta |-> Zero, omega_phi |-> Zero, omega_r |-> Zero,
          e_phiphi |-> m[1], e_thetaphi |-> m[2], e_thetatheta |-> m[3]]
    ELSE IF paramsel = 1
    THEN [omega_theta |-> m[1], omega_phi |-> m[2], omega_r |-> m[3],
          e_phiphi |-> Zero, e_thetaphi |-> Zero, e_thetatheta |-> Zero]
    ELSE [omega_theta |-> m[1], omega_phi |-> m[2], omega_r |-> m[3],
          e_phiphi |-> m[4], e_thetaphi |-> m[5], e_thetatheta |-> m[6]]

\* m unpacked into the rotation and strain parameters
Unpack(m, paramsel) ==
    IF paramsel = 2
    THEN [omega_theta |-> NaN, omega_phi |-> NaN, omega_r |-> NaN,
          e_phiphi |-> m[1], e_thetaphi |-> m[2], e_thetatheta |-> m[3]]
    ELSE IF paramsel = 1
    THEN [omega_theta |-> m[1], omega_phi |-> m[2], omega_r |-> m[3],
          e_phiphi |-> NaN, e_thetaphi |-> NaN, e_thetatheta |-> NaN]
    ELSE [omega_theta |-> m[1], omega_phi |-> m[2], omega_r |-> m[3],
          e_phiphi |-> m[4], e_thetaphi |-> m[5], e_thetatheta |-> m[6]]

\* the uncertainties read off the diagonal of covm
Uncertainties(covm, paramsel) ==
    IF paramsel = 2
    THEN [s_e_phiphi |-> VSqrt(covm[1][1]),
          s_e_thetaphi |-> VSqrt(covm[2][2]),
          s_e_thetatheta |-> VSqrt(covm[3][3]),
          s_U_phi |-> Zero, s_U_theta |-> Zero,
          s_omega_r |-> NaN]
    ELSE IF paramsel = 1
    THEN [s_e_phiphi |-> Zero, s_e_thetaphi |-> Zero, s_e_thetatheta |-> Zero,
          s_U_phi |-> VMulRoot(r0, VSqrt(covm[1][1])),
          s_U_theta |-> VMulRoot(r0, VSqrt(covm[2][2])),
          s_omega_r |-> VSqrt(covm[3][3])]
    ELSE [s_U_phi |-> VMulRoot(r0, VSqrt(covm[1][1])),
          s_U_theta |-> VMulRoot(r0, VSqrt(covm[2][2])),
          s_omega_r |-> VSqrt(covm[3][3]),
          s_e_phiphi |-> VSqrt(covm[4][4]),
          s_e_thetaphi |-> VSqrt(covm[5][5]),
          s_e_thetatheta |-> VSqrt(covm[6][6])]

\* the divisor of chi2 as the observations in excess of the unknowns
Chi2DivisorExcess(N, paramsel) == N - NumParams(paramsel)

\* the divisor of chi2 as the degrees of freedom
Chi2DivisorFreedom(N, paramsel) ==
    IF paramsel = 1 \/ paramsel = 2 THEN N - 3 ELSE N - 6

\* the divisor of chi2: N in every mode
Chi2Divisor(N, paramsel) == IF paramsel = 1 \/ paramsel = 2 THEN N ELSE N

\* x / k for a float x and a count k: 0/0 is nan, x/0 an infinity
DivideBy(x, k) ==
    IF k # 0 THEN QDiv(x, Q(k))
    ELSE IF x.n = 0 THEN NaN
    ELSE [n |-> IF x.n < 0 THEN -1 ELSE 1, d |-> 0, e |-> 0]

\* chi2, from the residuals d - G m
Chi2(G, m, d, covd, paramsel) ==
    LET N == Len(d)
        Gm == MatVec(G, m)
        res == Vec([i \in 1..N |-> QSub(d[i], Gm[i])])
        first_term == Lstsq(Transpose(covd), res)
    IN  DivideBy(Dot(first_term, res), Chi2Divisor(N, paramsel))

\* the Euler vector of the solid-body rotation: OMEGA, THETA_p, PHI_p.
\* arccos and arctan2 are kept as terms.  OMEGA2 is the sum of the squared
\* rotation rates, and sin_t, cos_t, sin_p, cos_p the sines and cosines of
\* theta_0 and phi_0.
EulerValues(om, OMEGA2, sin_t, cos_t, sin_p, cos_p) ==
    [OMEGA |-> VSqrt(OMEGA2),
     THETA_p |-> IF OMEGA2.n = 0 THEN NaN
                 ELSE [fn |-> "arccos",
                       num |-> QSub(QMul(om.omega_r, cos_t),
                                    QMul(om.omega_theta, sin_t)),
                       den |-> VSqrt(OMEGA2)],
     PHI_p |-> [fn |-> "arctan2",
                a |-> QAdd(QAdd(QMul(om.omega_r, QMul(sin_t, sin_p)),
                                QMul(om.omega_theta, QMul(cos_t, sin_p))),
                           QMul(om.omega_phi, cos_p)),
                b |-> QSub(QAdd(QMul(om.omega_r, QMul(sin_t, cos_p)),
                                QMul(om.omega_theta, QMul(cos_t, cos_p))),
                           QMul(om.omega_phi, sin_p))]]

\* the Euler vector in each mode
Euler(om, theta_0, phi_0, paramsel) ==
    IF paramsel = 2
    THEN [OMEGA |-> NaN, THETA_p |-> NaN, PHI_p |-> NaN]
    ELSE IF om.omega_r = Junk
    THEN [OMEGA |-> Junk, THETA_p |-> Junk, PHI_p |-> Junk]
    ELSE EulerValues(om,
                     QAdd(QAdd(QSquare(om.omega_r), QSquare(om.omega_phi)),
                          QSquare(om.omega_theta)),
                     Sin(theta_0), Cos(theta_0), Sin(phi_0), Cos(phi_0))

\* The uncertainties of the Euler vector are products of many fractions,
\* and some leave the integers TLC computes with.  Their arithmetic keeps
\* watch: a value it cannot hold is Beyond, and stays so.
Range == IntPow(2, 30) - 1

Beyond == [n |-> 1, d |-> 0, e |-> 1]

\* a * b lies within the range
Fits(a, b) == b = 0 \/ Abs(a) <= Range \div Abs(b)

GMulBy(x, y, g1, g2) ==
    IF Fits(x.n \div g1, y.n \div g2) /\ Fits(x.d \div g2, y.d \div g1)
    THEN [n |-> (x.n \div g1) * (y.n \div g2),
          d |-> (x.d \div g2) * (y.d \div g1),
          e |-> x.e + y.e]
    ELSE Beyond

\* QMul
GMul(x, y) ==
    IF x = Beyond \/ y = Beyond THEN Beyond
    ELSE IF x.n = 0 \/ y.n = 0 THEN Zero
    ELSE GMulBy(x, y, Gcd(Abs(x.n), y.d), Gcd(Abs(y.n), x.d))

GAddBy(x, y, g) ==
    IF Fits(x.n, y.d \div g) /\ Fits(y.n, x.d \div g) /\ Fits(x.d \div g, y.d)
    THEN QAddSame(x, y)
    ELSE Beyond

\* QAdd
GAdd(x, y) ==
    IF x = Beyond \/ y = Beyond THEN Beyond
    ELSE IF x.n = 0 THEN y
    ELSE IF y.n = 0 THEN x
    ELSE GAddBy(x, y, Gcd(x.d, y.d))

GNeg(x) == IF x = Beyond THEN Beyond ELSE QNeg(x)
GSub(x, y) == GAdd(x, GNeg(y))
GInv(x) == IF x = Beyond THEN Beyond ELSE QInv(x)
GDiv(x, y) == GMul(x, GInv(y))
GSquare(x) == GMul(x, x)

RECURSIVE GDotTo(_, _, _)
\* u[1] * v[1] + ... + u[k] * v[k]
GDotTo(u, v, k) ==
    IF k = 0 THEN Zero ELSE GAdd(GDotTo(u, v, k - 1), GMul(u[k], v[k]))

\* np.dot of two vectors
GDot(u, v) == GDotTo(u, v, Len(u))

\* y, A and B of the Euler vector (lines 212-215)
EulerY(om, sin_t, cos_t) ==
    QSub(QMul(om.omega_r, cos_t), QMul(om.omega_theta, sin_t))

EulerA(om, sin_t, cos_t, sin_p, cos_p) ==
    QAdd(QAdd(QMul(om.omega_r, QMul(sin_t, sin_p)),
              QMul(om.omega_theta, QMul(cos_t, sin_p))),
         QMul(om.omega_phi, cos_p))

EulerB(om, sin_t, cos_t, sin_p, cos_p) ==
    QSub(QAdd(QMul(om.omega_r, QMul(sin_t, cos_p)),
              QMul(om.omega_theta, QMul(cos_t, cos_p))),
         QMul(om.omega_phi, sin_p))

\* Covp with the rotation block of covm taken as it lies
CovpUnordered(covm) ==
    << << covm[1][1], covm[1][2], covm[1][3] >>,
       << covm[2][1], covm[2][2], covm[2][3] >>,
       << covm[3][1], covm[3][2], covm[3][3] >> >>

\* covp (line 234); the program's covm[i, j] is covm[i + 1][j + 1] here
Covp(covm) ==
    << << covm[3][3], covm[3][2], covm[3][1] >>,
       << covm[3][2], covm[2][2], covm[1][2] >>,
       << covm[3][1], covm[1][2], covm[1][1] >> >>

\* The Jacobian J (lines 221-232).  Each row of J is a rational row times
\* one factor that may be irrational: 1/OMEGA for row 0, 1 for row 1,
\* z/OMEGA for row 2, where (z/OMEGA)^2 = 1/(OMEGA^2 - y^2).  JRows are
\* the rational rows, for OMEGA2 # 0; AB2 is A*A + B*B.
JRows(om, OMEGA2, y, A, B, AB2, sin_t, cos_t, sin_p, cos_p) ==
    << << om.omega_r, om.omega_phi, om.omega_theta >>,
       IF AB2.n = 0 THEN << NaN, NaN, NaN >>
       ELSE << GMul(GDiv(sin_t, AB2), GSub(GMul(B, sin_p), GMul(A, cos_p))),
               GMul(GInv(AB2), GAdd(GMul(B, cos_p), GMul(A, sin_p))),
               GMul(GDiv(cos_t, AB2), GSub(GMul(B, sin_p), GMul(A, cos_p))) >>,
       << GNeg(GSub(cos_t, GDiv(GMul(y, om.omega_r), OMEGA2))),
          GDiv(GMul(y, om.omega_phi), OMEGA2),
          GAdd(sin_t, GDiv(GMul(y, om.omega_theta), OMEGA2)) >> >>

\* The squares of the factors of the rows of J.  A row is NaN where the
\* program divides 0 by 0 (OMEGA = 0, or A = B = 0 in row 1) or takes the
\* root of a negative number (z, when y*y > OMEGA*OMEGA); where z = 1/0
\* the entries of row 2 are infinite or NaN as rounding has it (Junk).
JScale2(OMEGA2, AB2, rest) ==
    << IF OMEGA2.n = 0 THEN NaN ELSE GInv(OMEGA2),
       IF OMEGA2.n = 0 \/ AB2.n = 0 THEN NaN ELSE One,
       IF OMEGA2.n = 0 THEN NaN
       ELSE IF rest = Beyond THEN Beyond
       ELSE IF rest.n < 0 THEN NaN
       ELSE IF rest.n = 0 THEN Junk
       ELSE QInv(rest) >>

\* u C v^T
Quad(u, C, v) == GDot(u, [i \in 1..Len(C) |-> GDot(C[i], v)])

Sign(x) == IF x.n < 0 THEN -1 ELSE IF x.n = 0 THEN 0 ELSE 1

\* the square of covE[1, 2] with its sign, from x = R[2] covp R[3]^T
SignedSquare(x, scale2) ==
    IF x = Beyond THEN Beyond
    ELSE [sign |-> Sign(x), sq |-> GMul(scale2, GSquare(x))]

\* The entries of covE = J covp J^T (line 235) that the program reads: the
\* diagonal, and entry [1, 2] as sign * sqrt(sq).
CovE(R, scale2, covp) ==
    [diag |-> Vec([i \in 1..3 |->
                 IF IsNumber(scale2[i])
                 THEN GMul(scale2[i], Quad(R[i], covp, R[i]))
                 ELSE scale2[i]]),
     phitheta |->
         IF scale2[2] = NaN \/ scale2[3] = NaN THEN NaN
         ELSE IF scale2[3] = Junk THEN Junk
         ELSE IF scale2[3] = Beyond THEN Beyond
         ELSE SignedSquare(Quad(R[2], covp, R[3]), GMul(scale2[2], scale2[3]))]

\* r_PHITHETA = covE[1,2]/np.sqrt(covE[1,1]*covE[2,2]) (line 241), as
\* sign * sqrt(sq): NaN when an operand is NaN, for infinity over
\* infinity and for 0/0
Correlation(covE) ==
    IF covE.phitheta \in {NaN, Junk} THEN NaN
    ELSE IF covE.phitheta = Beyond THEN Beyond
    ELSE IF GMul(covE.diag[2], covE.diag[3]).n = 0 THEN NaN
    ELSE [sign |-> covE.phitheta.sign,
          sq |-> GDiv(covE.phitheta.sq, GMul(covE.diag[2], covE.diag[3]))]

\* s_OMEGA, s_PHI_p, s_THETA_p and r_PHITHETA (lines 237-241)
EulerSigmasOf(covE) ==
    [s_OMEGA |-> VSqrt(covE.diag[1]),
     s_PHI_p |-> VSqrt(covE.diag[2]),
     s_THETA_p |-> VSqrt(covE.diag[3]),
     r_PHITHETA |-> Correlation(covE),
     covE |-> covE]

\* the uncertainties, with the rational rows R of J kept beside them
EulerSigmasGiven(R, scale2, covp) ==
    EulerSigmasOf(CovE(R, scale2, covp)) @@ [J |-> R]

EulerSigmasFrom(om, OMEGA2, y, A, B, AB2, sin_t, cos_t, sin_p, cos_p, covp) ==
    EulerSigmasGiven(
        IF OMEGA2.n = 0 THEN << >>
        ELSE JRows(om, OMEGA2, y, A, B, AB2, sin_t, cos_t, sin_p, cos_p),
        JScale2(OMEGA2, AB2, GSub(OMEGA2, GSquare(y))), covp)

EulerSigmasWith(om, y, A, B, sin_t, cos_t, sin_p, cos_p, covp) ==
    EulerSigmasFrom(om,
                    GAdd(GAdd(GSquare(om.omega_r), GSquare(om.omega_phi)),
                         GSquare(om.omega_theta)),
                    y, A, B, GAdd(GSquare(A), GSquare(B)),
                    sin_t, cos_t, sin_p, cos_p, covp)

EulerSigmasAt(om, sin_t, cos_t, sin_p, cos_p, covp) ==
    EulerSigmasWith(om, EulerY(om, sin_t, cos_t),
                    EulerA(om, sin_t, cos_t, sin_p, cos_p),
                    EulerB(om, sin_t, cos_t, sin_p, cos_p),
                    sin_t, cos_t, sin_p, cos_p, covp)

\* the uncertainties of the Euler vector in each mode (lines 210-250)
EulerSigmas(om, theta_0, phi_0, paramsel, covm) ==
    IF paramsel = 2
    THEN [s_OMEGA |-> NaN, s_PHI_p |-> NaN, s_THETA_p |-> NaN,
          r_PHITHETA |-> NaN, covE |-> << >>, J |-> << >>, covp |-> << >>]
    ELSE IF om.omega_r = Junk
    THEN [s_OMEGA |-> Junk, s_PHI_p |-> Junk, s_THETA_p |-> Junk,
          r_PHITHETA |-> Junk, covE |-> << >>, J |-> << >>, covp |-> << >>]
    ELSE EulerSigmasAt(om, Sin(theta_0), Cos(theta_0), Sin(phi_0), Cos(phi_0),
                       Covp(covm))
         @@ [covp |-> Covp(covm)]

\* the rotation and strain parameters returned, from the unpacked m
Parameters(om) ==
    [e_phiphi |-> om.e_phiphi, e_thetaphi |-> om.e_thetaphi,
     e_thetatheta |-> om.e_thetatheta, omega_r |-> om.omega_r,
     U_theta |-> VMul(r0, om.omega_phi),
     U_phi |-> VNeg(VMul(r0, om.omega_theta))]

JunkVector(k) == Vec([i \in 1..k |-> Junk])
JunkMatrix(k) == Vec([i \in 1..k |-> JunkVector(k)])

\* What strain_sphere returns, given the setup s of the problem, the
\* solution m, its covariance covm, the predicted data dpred and chi2.
\* The fields printed, colin, G, d, covd, m, covm, covp, J, covE and
\* garbage are not returned by the program: they record what it printed
\* and computed on the way.
Returned(a, s, garbage, m, om, covm, dpred, chi2) ==
    [status |-> "returned", printed |-> ColinWarning(s.colin),
     colin |-> s.colin, G |-> s.G, d |-> s.d, covd |-> s.covd,
     garbage |-> garbage, m |-> m, covm |-> covm, chi2 |-> chi2,
     u_phi_p |-> EvenEntries(dpred), u_theta_p |-> OddEntries(dpred)]
    @@ Parameters(om)
    @@ Uncertainties(covm, a.paramsel)
    @@ Euler(om, s.theta_0, s.phi_0, a.paramsel)
    @@ EulerSigmas(om, s.theta_0, s.phi_0, a.paramsel, covm)

\* the program from the solution m on
Fitted(a, s, m, covm) ==
    Returned(a, s, FALSE, m, Unpack(m, a.paramsel), covm, MatVec(s.G, m),
             Chi2(s.G, m, s.d, s.covd, a.paramsel))

\* the program from M on
Solved(a, s, M) ==
    Fitted(a, s, MatVec(M, s.d), MatMul(MatMul(M, s.covd), Transpose(M)))

\* the program from np.linalg.inv on: inv is the exact inverse of the
\* normal matrix, or [ok |-> FALSE] when it has none
Inverted(a, s, inv) ==
    IF inv.ok THEN Solved(a, s, SolverMatrix(s.G, s.covd, a.weight, inv.A))
    ELSE Returned(a, s, TRUE, JunkVector(NumParams(a.paramsel)),
                  Unpack(JunkVector(NumParams(a.paramsel)), a.paramsel),
                  JunkMatrix(NumParams(a.paramsel)),
                  JunkVector(2 * Len(a.u_theta)), Junk)

\* the setup of the problem, from phi and theta in radians and their means
Setup(a, phi, theta, phi_0, theta_0) ==
    [theta_0 |-> theta_0, phi_0 |-> phi_0,
     colin |-> Colin(phi, theta),
     d |-> HStack(a.u_phi, a.u_theta),
     G |-> BuildG(phi, theta, Len(a.u_theta), a.paramsel, phi_0, theta_0),
     covd |-> Covd(a.s_phi, a.s_theta)]

Located(a, phi, theta) == Setup(a, phi, theta, Mean(phi), Mean(theta))

Radians(v) == Vec([i \in 1..Len(v) |-> ToRadians(v[i])])

Inversion(a, s) == Inverted(a, s, Inverse(NormalMatrix(s.G, s.covd, a.weight)))

\* One call of strain_sphere on the arguments a, in exact arithmetic: the
\* result has garbage = TRUE when the normal matrix has no inverse.
StrainSphere(a) == Inversion(a, Located(a, Radians(a.phi), Radians(a.theta)))

\* np.linalg.inv on a singular normal matrix: it raises when elimination
\* meets an exact zero pivot, and returns garbage when rounding hides it
InvOutcome(res, rounding) ==
    IF res.garbage /\ rounding = "exact"
    THEN [status |-> "LinAlgError", printed |-> res.printed, colin |-> res.colin,
          G |-> res.G, d |-> res.d, covd |-> res.covd]
    ELSE res

Roundings == {"exact", "noisy"}

\* ArraysAfter had the program converted its angles in place
ArraysAfterInPlace(a) ==
    [a EXCEPT !.phi = Radians(a.phi), !.theta = Radians(a.theta)]

\* The caller's arguments after the call.  The program binds the converted
\* angles to new lists (lines 60-61) and assigns to no element of an
\* argument, to no global and to no attribute: the caller's arrays are as
\* they were.
ArraysAfter(a) == a

\* The program checks no length.  The first array operation that cannot
\* take the lengths it is given raises: lstsq on Gc and dc (line 77) when
\* phi and theta differ in length, phi[i] (line 96) when there are fewer
\* positions than the n = len(u_theta) velocities, np.dot(G.T, W) (line
\* 134) when weight = 1 and covd is not 2n x 2n, np.dot(M, d) (line 137)
\* when d has not 2n entries, np.dot(M, covd) (line 170) when covd is not
\* 2n x 2n.  (A singular normal matrix can raise at line 134 or 136, ahead
\* of the last two; the call raises either way.)  "none": no operation
\* raises on the lengths.
ShapeError(a) ==
    IF Len(a.phi) # Len(a.theta) THEN "LinAlgError at lstsq"
    ELSE IF Len(a.phi) < Len(a.u_theta) THEN "IndexError"
    ELSE IF a.weight = 1 /\ Len(a.s_phi) + Len(a.s_theta) # 2 * Len(a.u_theta)
    THEN "ValueError at W"
    ELSE IF Len(a.u_phi) + Len(a.u_theta) # 2 * Len(a.u_theta)
    THEN "ValueError at d"
    ELSE IF Len(a.s_phi) + Len(a.s_theta) # 2 * Len(a.u_theta)
    THEN "ValueError at covd"
    ELSE "none"

\* a call that ended in the error of an array operation
Raised(error) == [status |-> "raised", error |-> error]

----------------------------------------------------------------------------
(* compute(myVelfield, MyParams): the solver on every Delaunay triangle.   *)
(* A velocity field is [elon, nlat, e, n, se, sn], arrays over stations.   *)

Stations(vf) == 1..Len(vf.elon)

\* twice the signed area of the triangle of stations i, j, k
Area2(vf, i, j, k) ==
    QSub(QMul(QSub(vf.elon[j], vf.elon[i]), QSub(vf.nlat[k], vf.nlat[i])),
         QMul(QSub(vf.elon[k], vf.elon[i]), QSub(vf.nlat[j], vf.nlat[i])))

\* the squared distance of station l to the centre <<cx, cy>>
Dist2(vf, l, cx, cy) ==
    QAdd(QSquare(QSub(vf.elon[l], cx)), QSquare(QSub(vf.nlat[l], cy)))

\* no station lies strictly inside the circle through stations i, j, k
EmptyCircle(vf, i, j, k) ==
    LET ax == vf.elon[i]
        ay == vf.nlat[i]
        \* the centre c solves 2 (b - a) . c = |b|^2 - |a|^2, and so for k
        A == << << QMul(Q(2), QSub(vf.elon[j], ax)), QMul(Q(2), QSub(vf.nlat[j], ay)) >>,
                << QMul(Q(2), QSub(vf.elon[k], ax)), QMul(Q(2), QSub(vf.nlat[k], ay)) >> >>
        sq(l) == QAdd(QSquare(vf.elon[l]), QSquare(vf.nlat[l]))
        rhs == << QSub(sq(j), sq(i)), QSub(sq(k), sq(i)) >>
        c == MatVec(Inverse(A).A, rhs)
        r2 == Dist2(vf, i, c[1], c[2])
    IN  \A l \in Stations(vf) \ {i, j, k} : ~QLess(Dist2(vf, l, c[1], c[2]), r2)

\* the first of the stations at the place of station i
FirstAt(vf, i) ==
    CHOOSE l \in Stations(vf) :
        /\ vf.elon[l] = vf.elon[i] /\ vf.nlat[l] = vf.nlat[i]
        /\ \A l2 \in Stations(vf) :
              (vf.elon[l2] = vf.elon[i] /\ vf.nlat[l2] = vf.nlat[i]) => l <= l2

\* scipy.spatial.Delaunay(z).simplices for stations in general position:
\* the triangles whose circumcircle holds no other station, as index triples.
\* Of several stations at one place Qhull makes one a vertex and leaves the
\* others out; compute reads only the coordinates of the vertices, so which
\* one does not matter to it, and the first is taken here.
Delaunay(vf) ==
    { t \in Stations(vf) \X Stations(vf) \X Stations(vf) :
        /\ t[1] < t[2] /\ t[2] < t[3]
        /\ \A v \in 1..3 : FirstAt(vf, t[v]) = t[v]
        /\ Area2(vf, t[1], t[2], t[3]).n # 0
        /\ EmptyCircle(vf, t[1], t[2], t[3]) }

\* triangle_vertices = z[tri.simplices]: the coordinates of each vertex
TriangleVertices(vf, simplices) ==
    Vec([t \in 1..Len(simplices) |->
        Vec([v \in 1..3 |-> << vf.elon[simplices[t][v]], vf.nlat[simplices[t][v]] >>])])

\* np.where(arr == x)
Where(arr, x) == {l \in 1..Len(arr) : arr[l] = x}

\* the lookup by the longitude alone
VertexIndexByLongitude(vf, vertex) == Where(vf.elon, vertex[1])

\* np.intersect1d(np.where(elon == x), np.where(nlat == y)), as a set
VertexIndex(vf, vertex) ==
    Where(vf.elon, vertex[1]) \cap Where(vf.nlat, vertex[2])

\* index1, index2, index3 of a triangle
VertexIndices(vf, tv) == Vec([v \in 1..3 |-> VertexIndex(vf, tv[v])])

\* AtIndex reading the first station whatever the index
AtIndexFirst(arr, index) == arr[1]

\* arr[index] for an index array holding one station.  The fields of
\* myVelfield are lists: an index array of one element reads that element,
\* and one of several elements raises TypeError (see Indexable).
AtIndex(arr, index) == arr[CHOOSE l \in index : TRUE]

\* each index array can index a list: it holds exactly one station
Indexable(index) == \A v \in 1..3 : Cardinality(index[v]) = 1

\* the arguments compute passes to strain_sphere for one triangle, given
\* index1, index2, index3
TriangleArguments(vf, tv, index) ==
    [phi |-> Vec([v \in 1..3 |-> tv[v][1]]),
     theta |-> Vec([v \in 1..3 |-> QSub(tv[v][2], Q(90))]),
     u_phi |-> Vec([v \in 1..3 |-> AtIndex(vf.e, index[v])]),
     u_theta |-> Vec([v \in 1..3 |-> QNeg(AtIndex(vf.n, index[v]))]),
     s_phi |-> Vec([v \in 1..3 |-> AtIndex(vf.se, index[v])]),
     s_theta |-> Vec([v \in 1..3 |-> AtIndex(vf.sn, index[v])]),
     weight |-> 1,
     paramsel |-> 0]

\* LocalTensor without the changes of sign
LocalTensorUnsigned(res) ==
    [exx |-> VMul(res.e_phiphi, Q(1000)),
     exy |-> VMul(res.e_thetaphi, Q(1000)),
     eyy |-> VMul(res.e_thetatheta, Q(1000))]

\* the strain tensor in local axes, in nanostrain per year
LocalTensor(res) ==
    [exx |-> VMul(res.e_phiphi, Q(1000)),
     exy |-> VMul(VNeg(res.e_thetaphi), Q(1000)),
     eyy |-> VMul(VNeg(res.e_thetatheta), Q(1000))]

\* rot.append(omega_r*1000)
Rotation(res) == VMul(res.omega_r, Q(1000))

\* strain_tensor_toolbox.eigenvector_eigenvalue: the eigenvalues e1 >= e2
\* of [[exx, exy], [exy, eyy]], each a + b * sqrt(rad)
Eigenvalues(exx, exy, eyy) ==
    IF ~(IsNumber(exx) /\ IsNumber(exy) /\ IsNumber(eyy))
    THEN << Junk, Junk >>
    ELSE LET mid == QDiv(QAdd(exx, eyy), Q(2))
             rad == QAdd(QSquare(QDiv(QSub(exx, eyy), Q(2))), QSquare(exy))
         IN  << [a |-> mid, b |-> One, rad |-> rad],
                [a |-> mid, b |-> QNeg(One), rad |-> rad] >>

\* (e11 - e22)/2
MaxShear(e11, e22) ==
    IF e11 = Junk \/ e22 = Junk THEN Junk
    ELSE [a |-> QDiv(QSub(e11.a, e22.a), Q(2)),
          b |-> QDiv(QSub(e11.b, e22.b), Q(2)),
          rad |-> e11.rad]

\* what one pass of the loop appends to compute's lists
TriangleResult(res) ==
    LET t == LocalTensor(res)
        eig == Eigenvalues(t.exx, t.exy, t.eyy)
    IN  [exx |-> t.exx, exy |-> t.exy, eyy |-> t.eyy,
         rot |-> Rotation(res),
         e1 |-> eig[1], e2 |-> eig[2],
         max_shear |-> MaxShear(eig[1], eig[2])]

----------------------------------------------------------------------------
(* Inputs.                                                                 *)

\* the largest velocity component, in VelStep
MaxVel == 1

\* k radians, in degrees
Deg(k) == QDiv(QMul(Q(k), Q(180)), Pi)

\* station positions as <<longitude, colatitude - 90>> in radians
Geometries ==
    { << <<0, 0>>, <<1, 1>>, <<1, -1>> >>,
      << <<0, 0>>, <<1, 0>>, <<0, 1>> >>,
      << <<0, -1>>, <<0, 0>>, <<0, 1>> >>,
      << <<0, 0>>, <<1, 0>>, <<2, 0>> >>,
      << <<0, -1>>, <<1, 0>>, <<2, 1>> >>,
      << <<0, 0>>, <<0, 1>>, <<1, 0>>, <<1, 1>> >> }

\* a velocity array: at most one station moves
Velocities(n) ==
    { [i \in 1..n |-> IF i = k THEN Q(v) ELSE Zero] : k \in 1..n, v \in 0..MaxVel }

\* uncertainty arrays: all equal, or one station differing
Sigmas(n) ==
    { [s_phi |-> [i \in 1..n |-> Q(2)], s_theta |-> [i \in 1..n |-> Q(2)]],
      [s_phi |-> [i \in 1..n |-> IF i = 2 THEN Q(2) ELSE One],
       s_theta |-> [i \in 1..n |-> IF i = n THEN Q(2) ELSE One]] }

\* station sets as <<longitude, latitude>> in radians, in general position
StationSets ==
    { << <<0, 0>>, <<1, 1>>, <<1, -1>> >>,
      << <<0, 0>>, <<1, 1>>, <<1, -1>>, <<3, 0>> >> }

\* station sets with two stations at one place
DuplicateSets ==
    { << <<0, 0>>, <<1, 1>>, <<1, -1>>, <<1, 1>> >>,
      << <<0, 0>>, <<1, 1>>, <<1, -1>>, <<3, 0>>, <<3, 0>> >> }

Arguments ==
    UNION { { [phi |-> [i \in 1..Len(g) |-> Deg(g[i][1])],
               theta |-> [i \in 1..Len(g) |-> QAdd(Q(90), Deg(g[i][2]))],
               u_phi |-> up, u_theta |-> ut,
               s_phi |-> sg.s_phi, s_theta |-> sg.s_theta,
               weight |-> w, paramsel |-> ps] :
              up \in Velocities(Len(g)), ut \in Velocities(Len(g)),
              sg \in Sigmas(Len(g)), w \in {0, 1}, ps \in {1, 2, 3} } :
            g \in Geometries }

Velfields ==
    UNION { { [elon |-> [i \in 1..Len(g) |-> Deg(g[i][1])],
               nlat |-> [i \in 1..Len(g) |-> Deg(g[i][2])],
               e |-> ve, n |-> vn, se |-> sg.s_phi, sn |-> sg.s_theta] :
              ve \in Velocities(Len(g)), vn \in Velocities(Len(g)),
              sg \in Sigmas(Len(g)) } :
            g \in StationSets }

DuplicateFields ==
    UNION { { [elon |-> [i \in 1..Len(g) |-> Deg(g[i][1])],
               nlat |-> [i \in 1..Len(g) |-> Deg(g[i][2])],
               e |-> ve, n |-> vn, se |-> sg.s_phi, sn |-> sg.s_theta] :
              ve \in Velocities(Len(g)), vn \in Velocities(Len(g)),
              sg \in Sigmas(Len(g)) } :
            g \in DuplicateSets }

\* the lengths of the arrays of a malformed call
MinLen == 2
MaxLen == 4

\* v cut or filled up to k entries
Resized(v, k, fill) == Vec([i \in 1..k |-> IF i <= Len(v) THEN v[i] ELSE fill])

\* well-formed calls of three stations, one for each mode and weight
ShapeBases ==
    { [phi |-> << Deg(0), Deg(1), Deg(0) >>,
       theta |-> << Q(90), Q(90), QAdd(Q(90), Deg(1)) >>,
       u_phi |-> << Zero, One, Zero >>, u_theta |-> << Zero, Zero, Zero >>,
       s_phi |-> << Q(2), Q(2), Q(2) >>, s_theta |-> << Q(2), Q(2), Q(2) >>,
       weight |-> w, paramsel |-> ps] : w \in {0, 1}, ps \in {1, 2, 3} }

\* a has six arrays of one length
SameLengths(a) ==
    \A l \in {Len(a.theta), Len(a.u_phi), Len(a.u_theta), Len(a.s_phi),
              Len(a.s_theta)} : l = Len(a.phi)

\* calls whose six arrays are not of one length
Malformed ==
    { a \in { [phi |-> Resized(b.phi, l[1], Deg(1)),
               theta |-> Resized(b.theta, l[2], QAdd(Q(90), Deg(1))),
               u_phi |-> Resized(b.u_phi, l[3], Zero),
               u_theta |-> Resized(b.u_theta, l[4], Zero),
               s_phi |-> Resized(b.s_phi, l[5], Q(2)),
               s_theta |-> Resized(b.s_theta, l[6], Q(2)),
               weight |-> b.weight, paramsel |-> b.paramsel] :
             b \in ShapeBases, l \in [1..6 -> MinLen..MaxLen] } :
      ~SameLengths(a) }

NoArgs == [paramsel |-> -1]
NoOut == [status |-> "none"]
NoField == [elon |-> << >>]

----------------------------------------------------------------------------
(* The state: one direct call of strain_sphere (and a second call that     *)
(* repeats it), or one run of compute.                                     *)

VARIABLES
    pc,         \* where the program is
    args,       \* the arguments of the current (or last) strain_sphere call
    out,        \* what that call returned or raised
    first,      \* the first call, when a second call repeats it
    velfield,   \* compute's myVelfield
    tri,        \* compute's triangle_vertices
    simplices,  \* the station indices of each triangle (tri.simplices)
    calls,      \* compute's calls of strain_sphere so far, with their results
    results     \* compute's lists, one entry per triangle done

vars == <<pc, args, out, first, velfield, tri, simplices, calls, results>>

NoFirst == [kind |-> "none"]

Init ==
    /\ first = NoFirst
    /\ out = NoOut
    /\ tri = << >>
    /\ simplices = << >>
    /\ calls = << >>
    /\ results = << >>
    /\ \/ /\ pc = "ready"
          /\ args \in Arguments
          /\ velfield = NoField
       \/ /\ pc = "compute"
          /\ args = NoArgs
          /\ velfield \in Velfields

\* strain_sphere(phi, theta, u_phi, u_theta, s_phi, s_theta, weight, paramsel)
Call ==
    /\ pc = "ready"
    /\ IF ShapeError(args) # "none"
       THEN out' = Raised(ShapeError(args))
       ELSE LET res == StrainSphere(args)
            IN  \E rounding \in Roundings : out' = InvOutcome(res, rounding)
    /\ args' = ArraysAfter(args)
    /\ pc' = "done"
    /\ UNCHANGED <<first, velfield, tri, simplices, calls, results>>

\* the calls whose round trip is followed: in rotation-only mode those of
\* station sets centred on the equator, where the numbers of the second
\* solve stay within TLC's integers
RoundTripArguments ==
    {a \in Arguments : a.paramsel # 1 \/ Cos(ToRadians(Mean(a.theta))).n = 0}

\* the caller feeds the predicted velocities back in as observations
RoundTrip ==
    /\ pc = "done"
    /\ first = NoFirst
    /\ args \in RoundTripArguments
    /\ out.status = "returned"
    /\ ~out.garbage
    /\ first' = [kind |-> "roundtrip", args |-> args, out |-> out]
    /\ args' = [args EXCEPT !.u_phi = out.u_phi_p, !.u_theta = out.u_theta_p]
    /\ out' = NoOut
    /\ pc' = "ready"
    /\ UNCHANGED <<velfield, tri, simplices, calls, results>>

\* the caller repeats the call with the other setting of weight
Reweight ==
    /\ pc = "done"
    /\ first = NoFirst
    /\ out.status = "returned"
    /\ ~out.garbage
    /\ first' = [kind |-> "reweight", args |-> args, out |-> out]
    /\ args' = [args EXCEPT !.weight = 1 - args.weight]
    /\ out' = NoOut
    /\ pc' = "ready"
    /\ UNCHANGED <<velfield, tri, simplices, calls, results>>

\* compute, up to its loop: the triangulation, in some order of triangles
ComputeStart ==
    /\ pc = "compute"
    /\ \E order \in [1..Cardinality(Delaunay(velfield)) -> Delaunay(velfield)] :
          /\ \A t \in Delaunay(velfield) : \E k \in DOMAIN order : order[k] = t
          /\ simplices' = order
          /\ tri' = TriangleVertices(velfield, order)
    /\ pc' = "loop"
    /\ UNCHANGED <<args, out, first, velfield, calls, results>>

\* one pass of compute's loop over the triangles
ComputeTriangle ==
    /\ pc = "loop"
    /\ Len(calls) < Len(tri)
    /\ \E index \in {VertexIndices(velfield, tri[Len(calls) + 1])} :
          IF Indexable(index)
          THEN /\ \E a \in {TriangleArguments(velfield, tri[Len(calls) + 1],
                                               index)} :
                     /\ LET res == StrainSphere(a)
                        IN  \E rounding \in Roundings :
                                out' = InvOutcome(res, rounding)
                     /\ args' = ArraysAfter(a)
               /\ calls' = Append(calls, [args |-> args', out |-> out',
                                          index |-> index])
               /\ IF out'.status = "returned"
                  THEN /\ results' = Append(results, TriangleResult(out'))
                       /\ pc' = "loop"
                  ELSE /\ results' = results
                       /\ pc' = "raised"
          ELSE \* myVelfield.e[index1] (line 306) on a list
               /\ out' = [status |-> "TypeError", index |-> index]
               /\ pc' = "raised"
               /\ UNCHANGED <<args, calls, results>>
    /\ UNCHANGED <<first, velfield, tri, simplices>>

\* compute returns its lists
ComputeReturn ==
    /\ pc = "loop"
    /\ Len(calls) = Len(tri)
    /\ pc' = "returned"
    /\ UNCHANGED <<args, out, first, velfield, tri, simplices, calls, results>>

\* after compute, the caller repeats one of its calls of strain_sphere
\* with the arrays that call was given
Recall ==
    /\ pc = "returned"
    /\ first = NoFirst
    /\ \E k \in DOMAIN calls :
          /\ first' = [kind |-> "recall", args |-> calls[k].args,
                       out |-> calls[k].out]
          /\ args' = calls[k].args
    /\ out' = NoOut
    /\ pc' = "ready"
    /\ UNCHANGED <<velfield, tri, simplices, calls, results>>

Next ==
    \/ Call
    \/ RoundTrip
    \/ Reweight
    \/ ComputeStart
    \/ ComputeTriangle
    \/ ComputeReturn
    \/ Recall

Spec == Init /\ [][Next]_vars

\* one direct call with arrays of unequal lengths
InitShapes ==
    /\ pc = "ready"
    /\ args \in Malformed
    /\ out = NoOut
    /\ first = NoFirst
    /\ velfield = NoField
    /\ tri = << >>
    /\ simplices = << >>
    /\ calls = << >>
    /\ results = << >>

NextShapes == Call

\* one run of compute, on stations at distinct places or not
InitCompute ==
    /\ pc = "compute"
    /\ velfield \in Velfields \cup DuplicateFields
    /\ args = NoArgs
    /\ out = NoOut
    /\ first = NoFirst
    /\ tri = << >>
    /\ simplices = << >>
    /\ calls = << >>
    /\ results = << >>

NextCompute ==
    \/ ComputeStart
    \/ ComputeTriangle
    \/ ComputeReturn

SpecCompute == InitCompute /\ [][NextCompute]_vars

----------------------------------------------------------------------------
(* GPS_TOOLS/offsets.py: remove_offsets.  Epochs and offset dates are day  *)
(* numbers; displacements and offsets are floats, np.nan among them.       *)

\* x - y of two floats: np.nan if either is np.nan
FSub(x, y) == IF IsNumber(x) /\ IsNumber(y) THEN QSub(x, y) ELSE NaN

\* x + y of two floats
FAdd(x, y) == IF IsNumber(x) /\ IsNumber(y) THEN QAdd(x, y) ELSE NaN

RECURSIVE SumOver(_, _)
\* the sum of f over the indices in S, in no particular order
SumOver(S, f) ==
    IF S = {} THEN Zero
    ELSE LET k == CHOOSE k \in S : TRUE
         IN  FAdd(f[k], SumOver(S \ {k}, f))

\* an offset subtracted at every epoch but its own
OffsetAppliesThroughout(t, evdts) == t # evdts

\* Data0.dtarray[i] > item.evdts
OffsetApplies(t, evdts) == t > evdts

\* the body of the loop over offsets_obj, for one item
RemoveItem(temp, t, item) ==
    LET marked == IF t = item.evdts
                  THEN [E |-> NaN, N |-> NaN, U |-> NaN]
                  ELSE temp
    IN  IF OffsetApplies(t, item.evdts)
        THEN [E |-> FSub(marked.E, item.e_offsets),
              N |-> FSub(marked.N, item.n_offsets),
              U |-> FSub(marked.U, item.u_offsets)]
        ELSE marked

RECURSIVE RemoveItems(_, _, _, _)
\* tempE, tempN, tempU after the first k items of offsets_obj
RemoveItems(temp, t, offsets_obj, k) ==
    IF k = 0 THEN temp
    ELSE RemoveItem(RemoveItems(temp, t, offsets_obj, k - 1), t, offsets_obj[k])

\* tempE, tempN, tempU as appended for epoch i
RemovedAt(Data0, offsets_obj, i) ==
    RemoveItems([E |-> Data0.dE[i], N |-> Data0.dN[i], U |-> Data0.dU[i]],
                Data0.dtarray[i], offsets_obj, Len(offsets_obj))

\* newE, newN, newU
NewLists(Data0, offsets_obj) ==
    Vec([i \in 1..Len(Data0.dtarray) |-> RemovedAt(Data0, offsets_obj, i)])

\* the Timeseries built from Data0 and the new lists
NewData(Data0, new) ==
    [name |-> Data0.name, coords |-> Data0.coords, dtarray |-> Data0.dtarray,
     dN |-> Vec([i \in 1..Len(new) |-> new[i].N]),
     dE |-> Vec([i \in 1..Len(new) |-> new[i].E]),
     dU |-> Vec([i \in 1..Len(new) |-> new[i].U]),
     Sn |-> Data0.Sn, Se |-> Data0.Se, Su |-> Data0.Su,
     EQtimes |-> Data0.EQtimes]

\* what remove_offsets returns, and whether it is the object it was given
RemoveOffsets(Data0, offsets_obj) ==
    IF Len(offsets_obj) = 0
    THEN [status |-> "returned", value |-> Data0, is_input |-> TRUE]
    ELSE [status |-> "returned",
          value |-> NewData(Data0, NewLists(Data0, offsets_obj)),
          is_input |-> FALSE]

\* the longest list of offsets, and the last day of an offset
MaxOffsets == 2
MaxDay == 4

\* sequences over S of at most k entries
SeqsUpTo(S, k) == UNION { [1..l -> S] : l \in 0..k }

\* time series of three epochs with a gap, in order of time or not
Series ==
    { [name |-> "P001", coords |-> << Q(-120), Q(40) >>,
       dtarray |-> dts,
       dN |-> << Q(20), Q(21), Q(22) >>,
       dE |-> dE,
       dU |-> << Q(30), Q(31), Q(32) >>,
       Sn |-> << Q(1), Q(1), Q(1) >>, Se |-> << Q(2), Q(2), Q(2) >>,
       Su |-> << Q(3), Q(3), Q(3) >>,
       EQtimes |-> << 2 >>] :
      dts \in { << 1, 2, 4 >>, << 4, 1, 2 >> },
      dE \in { << Q(10), Q(11), Q(12) >>, << Q(10), NaN, Q(12) >> } }

\* Offsets(e_offsets, n_offsets, u_offsets, evdts)
OffsetItems ==
    { [e_offsets |-> e, n_offsets |-> Q(3), u_offsets |-> u, evdts |-> t] :
      e \in {Q(1), Q(2)}, u \in {Q(-4), NaN}, t \in 0..MaxDay }

OffsetCalls ==
    { [Data0 |-> D, offsets_obj |-> O] :
      D \in Series, O \in SeqsUpTo(OffsetItems, MaxOffsets) }

InitOffsets ==
    /\ pc = "remove_offsets"
    /\ args \in OffsetCalls
    /\ out = NoOut
    /\ first = NoFirst
    /\ velfield = NoField
    /\ tri = << >>
    /\ simplices = << >>
    /\ calls = << >>
    /\ results = << >>

\* one call of remove_offsets; it assigns to nothing it was given
CallRemoveOffsets ==
    /\ pc = "remove_offsets"
    /\ out' = RemoveOffsets(args.Data0, args.offsets_obj)
    /\ args' = args
    /\ pc' = "removed"
    /\ UNCHANGED <<first, velfield, tri, simplices, calls, results>>

NextOffsets == CallRemoveOffsets

SpecOffsets == InitOffsets /\ [][NextOffsets]_vars

----------------------------------------------------------------------------
(* GPS_TOOLS/offsets.py: fit_single_offset.                                *)

\* before_indeces: the epochs from offset_num_days days before interval[0]
\* up to it
BeforeIndeces(dtarray, interval, offset_num_days) ==
    {i \in DOMAIN dtarray :
        /\ -offset_num_days <= dtarray[i] - interval[1]
        /\ dtarray[i] - interval[1] <= 0}

\* after_indeces: the epochs from interval[1] up to offset_num_days days
\* after it
AfterIndeces(dtarray, interval, offset_num_days) ==
    {i \in DOMAIN dtarray :
        /\ 0 <= dtarray[i] - interval[2]
        /\ dtarray[i] - interval[2] <= offset_num_days}

\* np.nanmean of the data at the indices: the mean of those that are not
\* NaN, and NaN (with a RuntimeWarning) when all are
NanMean(data, indeces) ==
    LET numbers == {i \in indeces : IsNumber(data[i])}
    IN  IF numbers = {} THEN NaN
        ELSE QDiv(SumOver(numbers, [i \in numbers |-> data[i]]),
                  Q(Cardinality(numbers)))

\* offset == np.nan: a comparison with NaN is False, of NaN as of a number
EqualsNan(offset) == FALSE

\* what fit_single_offset returns
FitSingleOffset(dtarray, data, interval, offset_num_days) ==
    LET before_indeces == BeforeIndeces(dtarray, interval, offset_num_days)
        after_indeces == AfterIndeces(dtarray, interval, offset_num_days)
    IN  IF \/ before_indeces = {} \/ after_indeces = {}
           \/ Cardinality(before_indeces) = 1
           \/ Cardinality(after_indeces) = 1
        THEN Zero
        ELSE LET offset == FSub(NanMean(data, after_indeces),
                                NanMean(data, before_indeces))
             IN  IF EqualsNan(offset) THEN Zero ELSE offset

\* the number of epochs of a series, and solve_for_offsets' num_days
MaxEpoch == 5
NumDays == 10

\* calls of fit_single_offset on daily data, some of it NaN, at a day (as
\* solve_for_offsets calls it) or at an interval
FitCalls ==
    { [dtarray |-> Vec([i \in 1..MaxEpoch |-> i]),
       data |-> data,
       interval |-> << t0, t1 >>,
       offset_num_days |-> w] :
      data \in [1..MaxEpoch -> {NaN, Q(1), Q(4)}],
      t0 \in 1..MaxEpoch, t1 \in 1..MaxEpoch, w \in {1, NumDays} }

InitFit ==
    /\ pc = "fit_single_offset"
    /\ args \in {c \in FitCalls : c.interval[1] <= c.interval[2]}
    /\ out = NoOut
    /\ first = NoFirst
    /\ velfield = NoField
    /\ tri = << >>
    /\ simplices = << >>
    /\ calls = << >>
    /\ results = << >>

\* one call of fit_single_offset
CallFitSingleOffset ==
    /\ pc = "fit_single_offset"
    /\ out' = [status |-> "returned",
               offset |-> FitSingleOffset(args.dtarray, args.data,
                                          args.interval, args.offset_num_days)]
    /\ pc' = "fitted"
    /\ UNCHANGED <<args, first, velfield, tri, simplices, calls, results>>

NextFit == CallFitSingleOffset

SpecFit == InitFit /\ [][NextFit]_vars

----------------------------------------------------------------------------
(* GPS_TOOLS/grace_ts_functions.py: pair_GPSGRACE.                         *)

\* the days of a year, and the year of day 0
DaysPerYear == 365
Year0 == 2000

\* gps_ts_functions.get_float_times: the decimal year of each epoch
GetFloatTimes(dtarray) ==
    Vec([i \in DOMAIN dtarray |-> QAdd(Q(Year0), Frac(dtarray[i], DaysPerYear))])

\* min and max of a list of epochs
MinOf(dtarray) ==
    CHOOSE t \in {dtarray[i] : i \in DOMAIN dtarray} :
        \A i \in DOMAIN dtarray : t <= dtarray[i]
MaxOf(dtarray) ==
    CHOOSE t \in {dtarray[i] : i \in DOMAIN dtarray} :
        \A i \in DOMAIN dtarray : t >= dtarray[i]

\* the test of the loop with the ends of the GRACE range let in
InRangeOrAtEnd(t, grace_dtarray) ==
    MinOf(grace_dtarray) <= t /\ t <= MaxOf(grace_dtarray)

\* min(GRACE_TS.dtarray) < t < max(GRACE_TS.dtarray)
InRange(t, grace_dtarray) ==
    MinOf(grace_dtarray) < t /\ t < MaxOf(grace_dtarray)

RECURSIVE KeptTo(_, _, _)
\* the GPS indices appended by the first k turns of the loop
KeptTo(gps_dtarray, grace_dtarray, k) ==
    IF k = 0 THEN << >>
    ELSE IF InRange(gps_dtarray[k], grace_dtarray)
    THEN Append(KeptTo(gps_dtarray, grace_dtarray, k - 1), k)
    ELSE KeptTo(gps_dtarray, grace_dtarray, k - 1)

\* np.interp(x, xp, fp) for increasing xp: linear between the sample
\* points that enclose x, and the end value outside them
Interp(x, xp, fp) ==
    IF QLess(x, xp[1]) THEN fp[1]
    ELSE IF ~QLess(x, xp[Len(xp)]) THEN fp[Len(xp)]
    ELSE LET j == CHOOSE j \in 1..(Len(xp) - 1) :
                      ~QLess(x, xp[j]) /\ QLess(x, xp[j + 1])
         IN  QAdd(fp[j], QMul(QSub(x, xp[j]),
                              QDiv(QSub(fp[j + 1], fp[j]),
                                   QSub(xp[j + 1], xp[j]))))

\* one list of the loop: the entries of a GPS field at the kept indices
Taken(field, kept) == Vec([k \in DOMAIN kept |-> field[kept[k]]])

\* np.interp(decyear, grace_decyear, fp)
Resampled(decyear, grace_decyear, fp) ==
    Vec([k \in DOMAIN decyear |-> Interp(decyear[k], grace_decyear, fp)])

\* my_paired_ts, given the decimal years and the kept indices
PairedFrom(GPS_TS, GRACE_TS, decyear, grace_decyear, kept) ==
    [dtarray |-> Taken(GPS_TS.dtarray, kept),
     north |-> Taken(GPS_TS.dN, kept),
     east |-> Taken(GPS_TS.dE, kept),
     vert |-> Taken(GPS_TS.dU, kept),
     N_err |-> Taken(GPS_TS.Sn, kept),
     E_err |-> Taken(GPS_TS.Se, kept),
     V_err |-> Taken(GPS_TS.Su, kept),
     u |-> Resampled(decyear, grace_decyear, GRACE_TS.dE),
     v |-> Resampled(decyear, grace_decyear, GRACE_TS.dN),
     w |-> Resampled(decyear, grace_decyear, GRACE_TS.dU)]

\* what pair_GPSGRACE returns
PairGPSGRACE(GPS_TS, GRACE_TS) ==
    LET kept == KeptTo(GPS_TS.dtarray, GRACE_TS.dtarray, Len(GPS_TS.dtarray))
    IN  PairedFrom(GPS_TS, GRACE_TS,
                   Taken(GetFloatTimes(GPS_TS.dtarray), kept),
                   GetFloatTimes(GRACE_TS.dtarray), kept)

\* the number of GPS epochs and the largest number of GRACE epochs
NumGps == 3
MaxGrace == 3

\* GPS series of NumGps epochs on days 1..MaxDay, in any order
GpsSeries ==
    { [dtarray |-> Vec(dts),
       dN |-> Vec([i \in 1..NumGps |-> Q(20 + i)]),
       dE |-> Vec([i \in 1..NumGps |-> Q(10 + i)]),
       dU |-> Vec([i \in 1..NumGps |-> Q(30 + i)]),
       Sn |-> Vec([i \in 1..NumGps |-> Q(i)]),
       Se |-> Vec([i \in 1..NumGps |-> Q(3 + i)]),
       Su |-> Vec([i \in 1..NumGps |-> Q(6 + i)])] :
      dts \in [1..NumGps -> 1..MaxDay] }

\* GRACE series of one to MaxGrace epochs on days 1..MaxDay, in order of
\* time
GraceSeries ==
    { [dtarray |-> Vec(dts),
       dE |-> Vec([i \in DOMAIN dts |-> Q(i)]),
       dN |-> Vec([i \in DOMAIN dts |-> Q(2 * i)]),
       dU |-> Vec([i \in DOMAIN dts |-> Q(-i)])] :
      dts \in { d \in UNION { [1..l -> 1..MaxDay] : l \in 1..MaxGrace } :
                  \A i \in 1..(Len(d) - 1) : d[i] < d[i + 1] } }

PairCalls == { [GPS_TS |-> g, GRACE_TS |-> m] : g \in GpsSeries, m \in GraceSeries }

InitPair ==
    /\ pc = "pair_GPSGRACE"
    /\ args \in PairCalls
    /\ out = NoOut
    /\ first = NoFirst
    /\ velfield = NoField
    /\ tri = << >>
    /\ simplices = << >>
    /\ calls = << >>
    /\ results = << >>

\* one call of pair_GPSGRACE; it assigns to nothing it was given
CallPairGPSGRACE ==
    /\ pc = "pair_GPSGRACE"
    /\ out' = [status |-> "returned",
               value |-> PairGPSGRACE(args.GPS_TS, args.GRACE_TS)]
    /\ args' = args
    /\ pc' = "paired"
    /\ UNCHANGED <<first, velfield, tri, simplices, calls, results>>

NextPair == CallPairGPSGRACE

SpecPair == InitPair /\ [][NextPair]_vars

SpecShapes == InitShapes /\ [][NextShapes]_vars

----------------------------------------------------------------------------
(* Properties of strain_sphere.                                            *)

\* the current call has ended, by returning or by raising
Ended == out.status \in {"returned", "LinAlgError"}

\* the current call has returned the result of an inversion that exists
Clean == out.status = "returned" /\ ~out.garbage

\* the unknowns of each mode, in the order the specification gives them
UnknownsOf(paramsel) ==
    IF paramsel = 1 THEN << "omega_theta", "omega_phi", "omega_r" >>
    ELSE IF paramsel = 2 THEN << "e_phiphi", "e_thetaphi", "e_thetatheta" >>
    ELSE << "omega_theta", "omega_phi", "omega_r",
            "e_phiphi", "e_thetaphi", "e_thetatheta" >>

\* the place of an unknown among all six
PlaceOf(name) == CHOOSE k \in 1..6 : UnknownsOf(0)[k] = name

\* the solved value x of the unknown name is what the outputs o show
ShownAs(o, name, x) ==
    CASE name = "omega_theta" -> o.U_phi = VNeg(VMul(r0, x))
      [] name = "omega_phi" -> o.U_theta = VMul(r0, x)
      [] name = "omega_r" -> o.omega_r = x
      [] name = "e_phiphi" -> o.e_phiphi = x
      [] name = "e_thetaphi" -> o.e_thetaphi = x
      [] name = "e_thetatheta" -> o.e_thetatheta = x

\* the design matrix of the six-unknown problem for the stations of a
FullG(a) ==
    BuildG(Radians(a.phi), Radians(a.theta), Len(a.u_theta), 0,
           Mean(Radians(a.phi)), Mean(Radians(a.theta)))

\* C1: paramsel alone selects the unknowns: 1 the three rotation
\* parameters, 2 the three strain parameters, any other value all six; G
\* has 2n rows and one column per unknown, each the column that unknown
\* has in the six-unknown problem; and m is unpacked into the outputs in
\* that same order.
C1_UnknownsByMode ==
    Ended =>
        /\ NRows(out.G) = 2 * Len(args.u_theta)
        /\ \A r \in 1..NRows(out.G) :
              Len(out.G[r]) = Len(UnknownsOf(args.paramsel))
        /\ LET full == FullG(args)
           IN  \A r \in 1..NRows(out.G) : \A k \in 1..Len(out.G[r]) :
                  out.G[r][k] = full[r][PlaceOf(UnknownsOf(args.paramsel)[k])]
        /\ out.status = "returned" =>
              /\ Len(out.m) = Len(UnknownsOf(args.paramsel))
              /\ \A k \in 1..Len(out.m) :
                    ShownAs(out, UnknownsOf(args.paramsel)[k], out.m[k])

\* a rotation-only solve of four stations has returned a nonzero rotation
C1_Witness ==
    /\ Clean
    /\ args.paramsel = 1
    /\ Len(args.phi) = 4
    /\ out.omega_r.n # 0
    /\ Len(out.G[1]) = 3

\* C2: the outputs of parameters the mode does not solve for are NaN: the
\* three strains in rotation-only mode; omega_r, U_theta, U_phi, OMEGA,
\* THETA_p and PHI_p in strain-only mode.  In both-mode none of them is
\* forced to NaN: each is a number, but for THETA_p when there is no
\* rotation at all (OMEGA = 0, where it is arccos(0/0)).
C2_UnsolvedAreNaN ==
    out.status = "returned" =>
        /\ args.paramsel = 1 =>
              /\ out.e_phiphi = NaN
              /\ out.e_thetaphi = NaN
              /\ out.e_thetatheta = NaN
        /\ args.paramsel = 2 =>
              /\ out.omega_r = NaN
              /\ out.U_theta = NaN
              /\ out.U_phi = NaN
              /\ out.OMEGA = NaN
              /\ out.THETA_p = NaN
              /\ out.PHI_p = NaN
        /\ (args.paramsel \notin {1, 2} /\ ~out.garbage) =>
              /\ \A x \in {out.e_phiphi, out.e_thetaphi, out.e_thetatheta,
                           out.omega_r, out.U_theta, out.U_phi, out.OMEGA,
                           out.PHI_p} : x # NaN
              /\ out.THETA_p = NaN <=> out.OMEGA = Zero

\* a strain-only solve has returned a nonzero strain
C2_Witness ==
    /\ Clean
    /\ args.paramsel = 2
    /\ out.e_thetaphi.n # 0
    /\ out.OMEGA = NaN

\* the stations of a share one longitude, or one colatitude
SameLongitude(a) == \A i \in DOMAIN a.phi : a.phi[i] = a.phi[1]
SameColatitude(a) == \A i \in DOMAIN a.theta : a.theta[i] = a.theta[1]

\* the stations of a lie on one straight line of the (phi, theta) plane
OnOneLine(a) ==
    \A i, j, k \in DOMAIN a.phi :
        QMul(QSub(a.phi[j], a.phi[i]), QSub(a.theta[k], a.theta[i]))
            = QMul(QSub(a.phi[k], a.phi[i]), QSub(a.theta[j], a.theta[i]))

\* C3: collinear stations take the warning path: the flag is 2 when all
\* longitudes or all colatitudes are identical, 1 when the stations lie on
\* a line colatitude = a + b * longitude and the type-2 condition does not
\* hold; a warning is printed exactly when the flag is 1 or 2, and names
\* the flag.
C3_CollinearWarns ==
    Ended =>
        /\ (SameLongitude(args) \/ SameColatitude(args)) => out.colin = 2
        /\ (/\ OnOneLine(args)
            /\ ~SameLongitude(args)
            /\ ~SameColatitude(args)) => out.colin = 1
        /\ out.printed # << >> <=> out.colin \in {1, 2}
        /\ out.printed # << >> => out.printed[1].type = out.colin

\* three stations on a slanted line were flagged type 1, with a warning
C3_Witness ==
    /\ Ended
    /\ OnOneLine(args)
    /\ ~SameLongitude(args)
    /\ ~SameColatitude(args)
    /\ out.colin = 1
    /\ out.printed # << >>

\* C4: collinearity is a warning and never an error: whenever the warning
\* was printed, the call returns its result list.
C4_WarningNeverError ==
    (Ended /\ out.printed # << >>) => out.status = "returned"

\* C5: round trip: for non-collinear stations, a second call on the first
\* call's predicted velocities returns chi2 = 0 and the first call's
\* solved parameters.
C5_RoundTrip ==
    (/\ first.kind = "roundtrip"
     /\ out.status = "returned"
     /\ out.colin = 0) =>
        /\ out.chi2 = Zero
        /\ out.m = first.out.m

\* all uncertainties of a are one positive value
EqualSigmas(a) ==
    /\ a.s_phi[1].n > 0
    /\ \A i \in DOMAIN a.s_phi : a.s_phi[i] = a.s_phi[1]
    /\ \A i \in DOMAIN a.s_theta : a.s_theta[i] = a.s_phi[1]

\* what the claim about weighting compares
Compared(o) ==
    << o.m, o.e_phiphi, o.e_thetaphi, o.e_thetatheta, o.omega_r, o.U_theta,
       o.U_phi, o.u_phi_p, o.u_theta_p, o.s_omega_r, o.s_e_phiphi,
       o.s_e_thetaphi, o.s_e_thetatheta, o.s_U_theta, o.s_U_phi, o.chi2 >>

\* C6: with all uncertainties equal to one positive value, the call with
\* weight = 1 and the call with weight # 1 return the same solved
\* parameters, predicted velocities, parameter uncertainties and chi2.
C6_EqualSigmasWeighting ==
    (/\ first.kind = "reweight"
     /\ out.status = "returned"
     /\ EqualSigmas(args)) =>
        /\ args.weight # first.args.weight
        /\ Compared(out) = Compared(first.out)

\* a weighted and an unweighted solve of one problem with equal
\* uncertainties have both returned, with a nonzero solution and misfit
C6_Witness ==
    /\ first.kind = "reweight"
    /\ Clean
    /\ EqualSigmas(args)
    /\ args.weight = 1
    /\ first.args.weight = 0
    /\ \E k \in DOMAIN out.m : out.m[k].n # 0
    /\ out.chi2.n # 0

RECURSIVE WeightedSquaresTo(_, _, _)
\* the first k terms of (d - G m)^T covd^-1 (d - G m)
WeightedSquaresTo(o, Gm, k) ==
    IF k = 0 THEN Zero
    ELSE QAdd(WeightedSquaresTo(o, Gm, k - 1),
              QDiv(QSquare(QSub(o.d[k], Gm[k])), o.covd[k][k]))

WeightedSquares(o) == WeightedSquaresTo(o, MatVec(o.G, o.m), Len(o.d))

\* C7: in every mode chi2 is (d - G m)^T covd^-1 (d - G m) divided by
\* N = 2n, whatever the weight flag; never by N - 3 or N - 6.
C7_Chi2PerObservation ==
    Clean =>
        out.chi2 = QDiv(WeightedSquares(out), Q(2 * Len(args.u_theta)))

\* an unweighted strain-only solve with unequal uncertainties has returned
\* a nonzero chi2
C7_Witness ==
    /\ Clean
    /\ args.paramsel = 2
    /\ args.weight = 0
    /\ ~EqualSigmas(args)
    /\ out.chi2.n # 0

----------------------------------------------------------------------------
(* Properties of compute.                                                  *)

\* compute has triangulated the stations
Triangulated == pc \in {"loop", "returned", "raised"}

\* the values arr holds for the stations of the triangle t
AtTriangle(arr, t) == << arr[t[1]], arr[t[2]], arr[t[3]] >>

\* C8: compute runs the solver once per Delaunay triangle, none skipped,
\* always with weight = 1 and a paramsel selecting rotation and strain,
\* on the three vertices of the triangle with the east velocities, the
\* north velocities (as theta-ward velocities, so negated) and the
\* uncertainties of the three stations at those vertices.
C8_OnceEachTriangle ==
    Triangulated =>
        /\ Len(simplices) = Cardinality(Delaunay(velfield))
        /\ {simplices[k] : k \in DOMAIN simplices} = Delaunay(velfield)
        /\ Len(calls) <= Len(simplices)
        /\ pc = "returned" => Len(calls) = Len(simplices)
        /\ \A k \in DOMAIN calls :
              /\ calls[k].args.weight = 1
              /\ calls[k].args.paramsel \notin {1, 2}
              /\ calls[k].args.phi = AtTriangle(velfield.elon, simplices[k])
              /\ calls[k].args.u_phi = AtTriangle(velfield.e, simplices[k])
              /\ calls[k].args.u_theta
                    = AtTriangle([i \in Stations(velfield) |-> QNeg(velfield.n[i])],
                                 simplices[k])
              /\ calls[k].args.s_phi = AtTriangle(velfield.se, simplices[k])
              /\ calls[k].args.s_theta = AtTriangle(velfield.sn, simplices[k])

\* compute has returned after two solves, of two triangles that have a
\* moving station in common
C8_Witness ==
    /\ pc = "returned"
    /\ Len(calls) = 2
    /\ calls[1].args.phi # calls[2].args.phi
    /\ \E v \in 1..3 : calls[1].args.u_phi[v].n # 0
    /\ \E v \in 1..3 : calls[2].args.u_phi[v].n # 0

\* C9: the theta compute passes for each vertex is its colatitude, 90
\* minus its latitude, a value from 0 to 180.
C9_ThetaIsColatitude ==
    \A k \in DOMAIN calls : \A v \in 1..3 :
        /\ calls[k].args.theta[v]
              = QSub(Q(90), velfield.nlat[simplices[k][v]])
        /\ ~QLess(calls[k].args.theta[v], Zero)
        /\ ~QLess(Q(180), calls[k].args.theta[v])

\* the half difference of the eigenvalues of [[exx, exy], [exy, eyy]]:
\* sqrt(((exx - eyy)/2)^2 + exy^2)
HalfSpread(exx, exy, eyy) ==
    [a |-> Zero, b |-> One,
     rad |-> QAdd(QSquare(QDiv(QSub(exx, eyy), Q(2))), QSquare(exy))]

\* C10: for every triangle exx = 1000 e_phiphi, exy = -1000 e_thetaphi,
\* eyy = -1000 e_thetatheta, the rotation reported is 1000 omega_r, and
\* max_shear is (e1 - e2)/2 for the eigenvalues of (exx, exy, eyy).
C10_LocalAxes ==
    \A k \in DOMAIN results :
        /\ results[k].exx = VMul(Q(1000), calls[k].out.e_phiphi)
        /\ results[k].exy = VNeg(VMul(Q(1000), calls[k].out.e_thetaphi))
        /\ results[k].eyy = VNeg(VMul(Q(1000), calls[k].out.e_thetatheta))
        /\ results[k].rot = VMul(Q(1000), calls[k].out.omega_r)
        /\ results[k].max_shear
              = HalfSpread(results[k].exx, results[k].exy, results[k].eyy)

\* compute has returned a triangle with shear, theta-theta strain and
\* rotation
C10_Witness ==
    /\ pc = "returned"
    /\ results[1].exy.n # 0
    /\ results[1].eyy.n # 0
    /\ results[1].rot.n # 0
    /\ results[1].max_shear.rad.n # 0

----------------------------------------------------------------------------
(* Properties of strain_sphere on malformed input, and of its frame.       *)

\* C11: no call whose six arrays are not all of one length returns a
\* result list: each ends in the error of an array or linear-algebra
\* operation.
C11_MismatchRaises ==
    (pc = "done" /\ ~SameLengths(args)) => out.status # "returned"

C13_UnsolvedUncertaintiesNaN ==
    out.status = "returned" =>
        /\ args.paramsel = 1 =>
              /\ out.s_e_phiphi = NaN
              /\ out.s_e_thetaphi = NaN
              /\ out.s_e_thetatheta = NaN
        /\ args.paramsel = 2 =>
              /\ out.s_omega_r = NaN
              /\ out.s_U_theta = NaN
              /\ out.s_U_phi = NaN
              /\ out.s_OMEGA = NaN
              /\ out.s_THETA_p = NaN
              /\ out.s_PHI_p = NaN
              /\ out.r_PHITHETA = NaN

\* C14 as stated: with as many observations as unknowns (three stations,
\* both-mode, N = 6) the normalisation of chi2 divides by zero and chi2 is
\* not a finite number.
C14_Chi2DividesByZero ==
    (Clean /\ args.paramsel \notin {1, 2} /\ Len(out.d) = 6) =>
        ~IsNumber(out.chi2)

\* C14: with as many observations as unknowns the normalisation of chi2
\* divides by N = 6, not by N - 6: the solution fits the observations
\* exactly and chi2 is 0, a finite number.
C14_Chi2DividesByN ==
    (Clean /\ Len(out.d) = Len(out.m)) =>
        /\ args.paramsel \notin {1, 2}
        /\ Len(out.d) = 6
        /\ out.chi2 = Zero

\* a both-mode solve of three stations has returned a nonzero solution
C14_Witness ==
    /\ Clean
    /\ args.paramsel \notin {1, 2}
    /\ Len(args.u_theta) = 3
    /\ Len(out.d) = Len(out.m)
    /\ \E k \in DOMAIN out.m : out.m[k].n # 0
    /\ out.chi2 = Zero

\* C15: d and the diagonal of covd are ordered as the rows of G: for each
\* station i the entry of d beside G's phi-row of station i is u_phi[i],
\* with variance s_phi[i]^2, and the entry beside its theta-row is
\* u_theta[i], with variance s_theta[i]^2.
C15_RowsMatchObservations ==
    Ended =>
        \A i \in 1..Len(args.u_theta) :
            /\ out.d[2 * i - 1] = args.u_phi[i]
            /\ out.d[2 * i] = args.u_theta[i]
            /\ out.covd[2 * i - 1][2 * i - 1] = QSquare(args.s_phi[i])
            /\ out.covd[2 * i][2 * i] = QSquare(args.s_theta[i])

\* the places in m of omega_r, omega_phi and omega_theta, the order in
\* which the columns of J take the rotation rates
RotationPlaces == << 3, 2, 1 >>

\* the variance of OMEGA = |omega| to first order, from the rotation rates
\* m[1..3] and their covariances covm[1..3][1..3] as they lie in m
OmegaVariance(o) ==
    GDiv(Quad(<< o.m[1], o.m[2], o.m[3] >>,
              << << o.covm[1][1], o.covm[1][2], o.covm[1][3] >>,
                 << o.covm[2][1], o.covm[2][2], o.covm[2][3] >>,
                 << o.covm[3][1], o.covm[3][2], o.covm[3][3] >> >>,
              << o.m[1], o.m[2], o.m[3] >>),
         GAdd(GAdd(GSquare(o.m[1]), GSquare(o.m[2])), GSquare(o.m[3])))

\* C17: when rotation is solved, covp is the rotation block of covm in the
\* order (omega_r, omega_phi, omega_theta) of the columns of J, entry
\* (i, j) being the covariance of the i-th and j-th of these; s_OMEGA,
\* s_PHI_p and s_THETA_p are the roots of entries 0, 1, 2 of the diagonal
\* of covE = J covp J^T, and r_PHITHETA is covE[1, 2] over the product of
\* s_PHI_p and s_THETA_p.  (Checked where the numbers stay within range.)
C17_EulerCovariance ==
    (Clean /\ args.paramsel # 2) =>
        /\ \A i, j \in 1..3 :
              out.covp[i][j] = out.covm[RotationPlaces[i]][RotationPlaces[j]]
        /\ out.J # << >> =>
              out.J[1] = << out.m[RotationPlaces[1]], out.m[RotationPlaces[2]],
                            out.m[RotationPlaces[3]] >>
        /\ out.s_OMEGA = VSqrt(out.covE.diag[1])
        /\ out.s_PHI_p = VSqrt(out.covE.diag[2])
        /\ out.s_THETA_p = VSqrt(out.covE.diag[3])
        /\ (out.J # << >> /\ out.s_OMEGA # Beyond /\ OmegaVariance(out) # Beyond) =>
              out.s_OMEGA = VSqrt(OmegaVariance(out))
        /\ "sign" \in DOMAIN out.r_PHITHETA =>
              /\ out.r_PHITHETA.sign = out.covE.phitheta.sign
              /\ GMul(out.r_PHITHETA.sq,
                      GMul(out.covE.diag[2], out.covE.diag[3]))
                    \in {out.covE.phitheta.sq, Beyond}

\* a solve with rotation has returned an Euler vector whose uncertainties
\* are all numbers, with correlated pole coordinates, from a covariance
\* whose order matters
C17_Witness ==
    /\ Clean
    /\ args.paramsel # 2
    /\ "root" \in DOMAIN out.s_OMEGA
    /\ "root" \in DOMAIN out.s_PHI_p
    /\ "root" \in DOMAIN out.s_THETA_p
    /\ "sign" \in DOMAIN out.r_PHITHETA
    /\ out.r_PHITHETA.sign # 0
    /\ out.r_PHITHETA.sq # Beyond
    /\ out.covm[1][1] # out.covm[3][3]
    /\ out.covm[1][2] # out.covm[2][3]

----------------------------------------------------------------------------
(* Properties of compute's index lookup.                                   *)

\* the stations located at a vertex
StationsAt(vf, vertex) ==
    {l \in Stations(vf) : << vf.elon[l], vf.nlat[l] >> = vertex}

\* no two stations of vf are at one place
DistinctPlaces(vf) ==
    \A i, j \in Stations(vf) :
        (vf.elon[i] = vf.elon[j] /\ vf.nlat[i] = vf.nlat[j]) => i = j

\* the lookups compute has made: those of its calls, and the one on which
\* it raised
Lookups ==
    [k \in 1..(Len(calls) + IF out.status = "TypeError" THEN 1 ELSE 0) |->
        IF k <= Len(calls) THEN calls[k].index ELSE out.index]

\* C16: with stations at pairwise distinct places the lookup of each vertex
\* yields one index, that of the station at the vertex, even when other
\* stations share its longitude or its latitude; with two stations at the
\* vertex it yields more than one index, and nothing in compute checks for
\* it: compute goes on to index its lists with what the lookup gave.
C16_VertexLookup ==
    Triangulated =>
        /\ \A k \in DOMAIN Lookups : \A v \in 1..3 :
              /\ Lookups[k][v] = StationsAt(velfield, tri[k][v])
              /\ DistinctPlaces(velfield) => Lookups[k][v] = {simplices[k][v]}
              /\ (\E l \in Stations(velfield) :
                     /\ l # simplices[k][v]
                     /\ l \in StationsAt(velfield, tri[k][v]))
                    => Cardinality(Lookups[k][v]) > 1
        /\ DistinctPlaces(velfield) => out.status # "TypeError"
        /\ out.status = "TypeError" =>
              /\ pc = "raised"
              /\ \E v \in 1..3 : Cardinality(out.index[v]) > 1

\* compute has looked up the vertices of a triangle with two stations at
\* one vertex, after a triangle of single stations
C16_Witness ==
    /\ pc = "raised"
    /\ out.status = "TypeError"
    /\ Len(calls) = 1
    /\ \E v \in 1..3 : Cardinality(out.index[v]) = 2
    /\ \E v \in 1..3 : Cardinality(out.index[v]) = 1

----------------------------------------------------------------------------
(* Properties of remove_offsets.                                           *)

\* the offsets dated strictly before t
Before(offsets_obj, t) == {k \in DOMAIN offsets_obj : offsets_obj[k].evdts < t}

\* C18: remove_offsets with offsets returns a series that is NaN in all
\* three components at an epoch that is the date of an offset, and elsewhere
\* is the original minus the sum of the offsets dated strictly before the
\* epoch, whatever the order of the list; the other fields are those of the
\* input, which is left as it was; without offsets it returns its input.
C18_OffsetsRemoved ==
    pc = "removed" =>
        LET D == args.Data0
            O == args.offsets_obj
            R == out.value
        IN  /\ args \in OffsetCalls
            /\ Len(O) = 0 => (out.is_input /\ R = D)
            /\ Len(O) > 0 =>
                  /\ ~out.is_input
                  /\ DOMAIN R.dE = DOMAIN D.dtarray
                  /\ DOMAIN R.dN = DOMAIN D.dtarray
                  /\ DOMAIN R.dU = DOMAIN D.dtarray
                  /\ \A i \in DOMAIN D.dtarray :
                        IF \E k \in DOMAIN O : O[k].evdts = D.dtarray[i]
                        THEN R.dE[i] = NaN /\ R.dN[i] = NaN /\ R.dU[i] = NaN
                        ELSE LET S == Before(O, D.dtarray[i])
                             IN  /\ R.dE[i] = FSub(D.dE[i],
                                     SumOver(S, [k \in S |-> O[k].e_offsets]))
                                 /\ R.dN[i] = FSub(D.dN[i],
                                     SumOver(S, [k \in S |-> O[k].n_offsets]))
                                 /\ R.dU[i] = FSub(D.dU[i],
                                     SumOver(S, [k \in S |-> O[k].u_offsets]))
                  /\ \A f \in {"name", "coords", "dtarray", "Sn", "Se", "Su",
                                "EQtimes"} : R[f] = D[f]
                  /\ \A p \in Permutations(DOMAIN O) :
                        RemoveOffsets(D, Vec([k \in DOMAIN O |-> O[p[k]]])) = out

\* remove_offsets has returned for a list of two offsets, the later one
\* first, with an epoch on the date of an offset, an epoch after both and an
\* epoch before both
C18_Witness ==
    /\ pc = "removed"
    /\ Len(args.offsets_obj) = 2
    /\ args.offsets_obj[1].evdts > args.offsets_obj[2].evdts
    /\ \E i, j, l \in DOMAIN args.Data0.dtarray :
          /\ args.Data0.dtarray[i] = args.offsets_obj[2].evdts
          /\ args.Data0.dtarray[j] > args.offsets_obj[1].evdts
          /\ args.Data0.dtarray[l] < args.offsets_obj[2].evdts
          /\ out.value.dE[i] = NaN
          /\ IsNumber(out.value.dE[j])
          /\ out.value.dE[l] = args.Data0.dE[l]

----------------------------------------------------------------------------
(* Properties of fit_single_offset.                                        *)

\* C19: fit_single_offset never returns NaN: it returns 0 when a window
\* holds fewer than two epochs, 0 when the difference of the window means
\* is NaN, and otherwise the NaN-ignoring mean after minus that before.
C19_NeverNaN ==
    pc = "fitted" =>
        LET before == BeforeIndeces(args.dtarray, args.interval,
                                    args.offset_num_days)
            after == AfterIndeces(args.dtarray, args.interval,
                                  args.offset_num_days)
            difference == FSub(NanMean(args.data, after),
                               NanMean(args.data, before))
        IN  /\ IsNumber(out.offset)
            /\ IF Cardinality(before) < 2 \/ Cardinality(after) < 2
               THEN out.offset = Zero
               ELSE IF ~IsNumber(difference)
               THEN out.offset = Zero
               ELSE out.offset = difference

----------------------------------------------------------------------------
(* Properties of pair_GPSGRACE.                                            *)

\* the GPS indices whose epoch lies strictly between the earliest and the
\* latest GRACE epoch
Between(GPS_TS, GRACE_TS) ==
    {i \in DOMAIN GPS_TS.dtarray :
        /\ \E j \in DOMAIN GRACE_TS.dtarray :
              GRACE_TS.dtarray[j] < GPS_TS.dtarray[i]
        /\ \E j \in DOMAIN GRACE_TS.dtarray :
              GRACE_TS.dtarray[j] > GPS_TS.dtarray[i]}

\* the k-th index of S, counted from the smallest
Nth(S, k) == CHOOSE i \in S : Cardinality({j \in S : j < i}) = k - 1

\* C20: the ten fields of the paired series have one length; its epochs
\* are the GPS epochs strictly between the earliest and the latest GRACE
\* epoch, in their GPS order, each with its own GPS values and
\* uncertainties; GPS epochs at an end of the GRACE range or outside it are
\* dropped; the inputs are as they were.
C20_Paired ==
    pc = "paired" =>
        LET G == args.GPS_TS
            P == out.value
            S == Between(G, args.GRACE_TS)
        IN  /\ args \in PairCalls
            /\ \A f \in {"dtarray", "north", "east", "vert", "N_err", "E_err",
                          "V_err", "u", "v", "w"} :
                  DOMAIN P[f] = 1..Cardinality(S)
            /\ \A k \in 1..Cardinality(S) :
                  /\ P.dtarray[k] = G.dtarray[Nth(S, k)]
                  /\ P.north[k] = G.dN[Nth(S, k)]
                  /\ P.east[k] = G.dE[Nth(S, k)]
                  /\ P.vert[k] = G.dU[Nth(S, k)]
                  /\ P.N_err[k] = G.Sn[Nth(S, k)]
                  /\ P.E_err[k] = G.Se[Nth(S, k)]
                  /\ P.V_err[k] = G.Su[Nth(S, k)]
            /\ \A k \in DOMAIN P.dtarray :
                  /\ P.dtarray[k] # MinOf(args.GRACE_TS.dtarray)
                  /\ P.dtarray[k] # MaxOf(args.GRACE_TS.dtarray)

\* pair_GPSGRACE has returned for GPS epochs out of time order of which one
\* is the first GRACE epoch, one lies inside the GRACE range and one is
\* the last GRACE epoch
C20_Witness ==
    /\ pc = "paired"
    /\ args.GPS_TS.dtarray[1] = MaxOf(args.GRACE_TS.dtarray)
    /\ args.GPS_TS.dtarray[2] = MinOf(args.GRACE_TS.dtarray)
    /\ InRange(args.GPS_TS.dtarray[3], args.GRACE_TS.dtarray)
    /\ Len(args.GRACE_TS.dtarray) = 3
    /\ Len(out.value.dtarray) = 1
    /\ out.value.north = << args.GPS_TS.dN[3] >>
    /\ Len(out.value.u) = 1

=============================================================================
